---- MODULE Spec2Model ----
(***************************************************************************)
(* The OKX spot connectors of src/connectors/public/private-connector-     *)
(* main.ts: the public connector (OKXSpotPublicConnector: socket           *)
(* lifecycle, order book reconstruction, top of book) and the private      *)
(* connector (OkxSpotPrivateConnector: socket lifecycle, login, ping       *)
(* interval, stop).  One connector instance is modelled; which class it    *)
(* is, is fixed at construction (variable connector).                      *)
(***************************************************************************)
EXTENDS Integers, Sequences, FiniteSets, TLC

\* ------------------------------------------------------------------ bounds
\* Most updates carried by one market depth event of the feed.
MaxUpdates == 2
\* Most sockets one run creates (connect() has no limit of its own).
MaxSockets == 2
\* Most control frames recorded as sent on one socket.
MaxFrames == 3
\* Most orders, or order ids, of one request to the order gateway.
MaxOrders == 41
\* The last value of Date.now() explored, in milliseconds.
MaxClock == 1001

\* ------------------------------------------------- wire values of the feed
Level(side, price, quantity) ==
    [side |-> side, price_level |-> price, new_quantity |-> quantity]

\* OkxMarketDepthLevel values of the feed, price and quantity as the decimal
\* strings the venue writes: bids at two prices, one of them with two sizes
\* and with the removing quantity "0"; offers at two prices, one of them with
\* the quantity "0"; and one level whose side is neither 'bid' nor 'offer'.
Levels ==
    { Level("bid", "100", "5"), Level("bid", "100", "2"),
      Level("bid", "100", "0"), Level("bid", "99", "2"),
      Level("offer", "101", "3"), Level("offer", "101", "0"),
      Level("offer", "102", "3"), Level("sell", "100", "5") }

\* parseFloat on the decimal strings of the feed.
parseFloat(s) ==
    CASE s = "0" -> 0
      [] s = "2" -> 2
      [] s = "3" -> 3
      [] s = "5" -> 5
      [] s = "99" -> 99
      [] s = "100" -> 100
      [] s = "101" -> 101
      [] s = "102" -> 102

\* --------------------------------------------------------- array helpers
\* Array.prototype.findIndex on price_level: the first index whose entry has
\* that price string, 0 for JavaScript's -1.
findIndex(list, price) ==
    IF \E i \in 1..Len(list) : list[i].price_level = price
    THEN CHOOSE i \in 1..Len(list) :
            /\ list[i].price_level = price
            /\ \A j \in 1..(i - 1) : list[j].price_level # price
    ELSE 0

\* Array.prototype.splice(index, 1).
splice(list, index) ==
    [i \in 1..(Len(list) - 1) |-> IF i < index THEN list[i] ELSE list[i + 1]]

\* Array.prototype.filter on the side field.
filterSide(updates, side) == SelectSeq(updates, LAMBDA e : e.side = side)

\* The comparators handed to Array.prototype.sort: a result > 0 puts a after b.
bidComparator(a, b) == parseFloat(b.price_level) - parseFloat(a.price_level)
askComparator(a, b) == parseFloat(a.price_level) - parseFloat(b.price_level)
comparator(ladder, a, b) ==
    IF ladder = "bids" THEN bidComparator(a, b) ELSE askComparator(a, b)

\* One step of a stable sort: x goes before the first entry that the comparator
\* puts strictly after it.
RECURSIVE insertSorted(_, _, _)
insertSorted(sorted, x, ladder) ==
    IF sorted = <<>> THEN <<x>>
    ELSE IF comparator(ladder, Head(sorted), x) > 0 THEN <<x>> \o sorted
    ELSE <<Head(sorted)>> \o insertSorted(Tail(sorted), x, ladder)

\* Array.prototype.sort with the ladder's comparator, stable.
RECURSIVE sort(_, _)
sort(list, ladder) ==
    IF list = <<>> THEN <<>>
    ELSE insertSorted(sort(SubSeq(list, 1, Len(list) - 1), ladder),
                      list[Len(list)], ladder)

\* ------------------------------------------------------------- updateBook
\* updateBid with the removal taking the first entry of the ladder, not the
\* entry found.
updateBidShift(list, event) ==
    LET eventIndex == findIndex(list, event.price_level) IN
    IF event.new_quantity = "0" /\ eventIndex # 0
    THEN splice(list, 1)
    ELSE IF parseFloat(event.new_quantity) > 0 /\ eventIndex = 0
    THEN sort(<<event>> \o list, "bids")
    ELSE list

\* The body of bidsList.forEach: one bid update against the bid ladder.
updateBid(list, event) ==
    LET eventIndex == findIndex(list, event.price_level) IN
    IF event.new_quantity = "0" /\ eventIndex # 0
    THEN splice(list, eventIndex)
    ELSE IF parseFloat(event.new_quantity) > 0 /\ eventIndex = 0
    THEN sort(<<event>> \o list, "bids")
    ELSE list

\* The body of asksList.forEach: one offer update against the ask ladder.
updateAsk(list, event) ==
    LET eventIndex == findIndex(list, event.price_level) IN
    IF event.new_quantity = "0" /\ eventIndex # 0
    THEN splice(list, eventIndex)
    ELSE IF parseFloat(event.new_quantity) > 0 /\ eventIndex = 0
    THEN sort(<<event>> \o list, "asks")
    ELSE list

RECURSIVE forEachBid(_, _)
forEachBid(list, bidsList) ==
    IF bidsList = <<>> THEN list
    ELSE forEachBid(updateBid(list, Head(bidsList)), Tail(bidsList))

RECURSIVE forEachAsk(_, _)
forEachAsk(list, asksList) ==
    IF asksList = <<>> THEN list
    ELSE forEachAsk(updateAsk(list, Head(asksList)), Tail(asksList))

\* updateBook with the snapshot filling only the sides that are empty.
updateBookFill(book, event) ==
    LET bidsList == filterSide(event.updates, "bid")
        asksList == filterSide(event.updates, "offer")
    IN  IF event.type = "snapshot"
        THEN [bids |-> IF book.bids = <<>> THEN bidsList ELSE book.bids,
              asks |-> IF book.asks = <<>> THEN asksList ELSE book.asks]
        ELSE [bids |-> forEachBid(book.bids, bidsList),
              asks |-> forEachAsk(book.asks, asksList)]

\* updateBook(event) on the book [bids, asks].
updateBook(book, event) ==
    LET bidsList == filterSide(event.updates, "bid")
        asksList == filterSide(event.updates, "offer")
    IN  IF event.type = "snapshot"
        THEN [bids |-> bidsList, asks |-> asksList]
        ELSE [bids |-> forEachBid(book.bids, bidsList),
              asks |-> forEachAsk(book.asks, asksList)]

\* marketDepth.map(updateBook): every event of message.data, in order.
RECURSIVE updateBookAll(_, _)
updateBookAll(book, marketDepth) ==
    IF marketDepth = <<>> THEN book
    ELSE updateBookAll(updateBook(book, Head(marketDepth)), Tail(marketDepth))

\* createTopOfBook: null while a side is empty, else the first entry of each.
Null == [event |-> "null"]
\* createTopOfBook reading the last entry of each side, not the first.
createTopOfBookLast(book) ==
    IF Len(book.bids) = 0 \/ Len(book.asks) = 0
    THEN Null
    ELSE [event |-> "TopOfBook",
          askPrice |-> parseFloat(book.asks[Len(book.asks)].price_level),
          askSize |-> parseFloat(book.asks[Len(book.asks)].new_quantity),
          bidPrice |-> parseFloat(book.bids[Len(book.bids)].price_level),
          bidSize |-> parseFloat(book.bids[Len(book.bids)].new_quantity)]

createTopOfBook(book) ==
    IF Len(book.bids) = 0 \/ Len(book.asks) = 0
    THEN Null
    ELSE [event |-> "TopOfBook",
          askPrice |-> parseFloat(book.asks[1].price_level),
          askSize |-> parseFloat(book.asks[1].new_quantity),
          bidPrice |-> parseFloat(book.bids[1].price_level),
          bidSize |-> parseFloat(book.bids[1].new_quantity)]

\* ------------------------------------------------------ inbound messages
\* A wire message of the public feed: parses says whether JSON.parse accepts
\* the text; event, channel and data are the parsed fields.
BookMessage(data) ==
    [parses |-> TRUE, event |-> "update", channel |-> "books", data |-> data]
ErrorMessage ==
    [parses |-> TRUE, event |-> "error", channel |-> "books", data |-> <<>>]
UnparseableMessage ==
    [parses |-> FALSE, event |-> "", channel |-> "", data |-> <<>>]

MarketDepthEvent(type, updates) == [type |-> type, updates |-> updates]

\* The other messages of the public feed: trades, tickers, and the venue's
\* answer to a subscription, which names no channel.
TradeMessage(data) ==
    [parses |-> TRUE, event |-> "update", channel |-> "trades", data |-> data]
TickerMessage(data) ==
    [parses |-> TRUE, event |-> "update", channel |-> "tickers", data |-> data]
SubscribeAck ==
    [parses |-> TRUE, event |-> "subscribe", channel |-> "", data |-> <<>>]

OkxTradeEvent(trades) == [type |-> "update", trades |-> trades]
OkxTickerEvent(tickers) == [type |-> "update", tickers |-> tickers]
OkxTrade == [tradeId |-> "1", price |-> "100", size |-> "5", side |-> "buy"]
OkxTicker == [instId |-> "BTC-USD", lastPrice |-> "100"]

\* An entry of message.data of an unrecognized shape: it has none of the
\* fields updates, trades, tickers the handlers read.
ShapelessEvent == [type |-> "update"]

UpdateLists == UNION {[1..n -> Levels] : n \in 0..MaxUpdates}

\* The book messages of the feed: no event; one market depth event, snapshot
\* or update, of up to MaxUpdates updates; two events of at most one update.
EventTypes == {"snapshot", "update"}
ShortEvents ==
    {MarketDepthEvent(t, u) :
        t \in EventTypes, u \in {<<>>} \cup {<<l>> : l \in Levels}}
BookFeed ==
    {BookMessage(<<>>)}
        \cup {BookMessage(<<MarketDepthEvent(t, u)>>) :
                t \in EventTypes, u \in UpdateLists}
        \cup {BookMessage(<<e, f>>) : e \in ShortEvents, f \in ShortEvents}

\* The three messages of the worked example of the specification, section 8.7.
ScenarioSnapshot ==
    BookMessage(<<MarketDepthEvent("snapshot",
        <<Level("bid", "100", "5"), Level("offer", "101", "3")>>)>>)
ScenarioRemove ==
    BookMessage(<<MarketDepthEvent("update", <<Level("bid", "100", "0")>>)>>)
ScenarioAdd ==
    BookMessage(<<MarketDepthEvent("update", <<Level("bid", "99", "2")>>)>>)

\* How far the last messages follow that example: 1 after the snapshot, 2 when
\* the removal came next, 3 when the addition came after that, else 0.
scenarioStep(step, m) ==
    IF m = ScenarioSnapshot THEN 1
    ELSE IF step = 1 /\ m = ScenarioRemove THEN 2
    ELSE IF step = 2 /\ m = ScenarioAdd THEN 3
    ELSE 0

\* getEventType looking at the channel alone, whatever the event field says.
getEventTypeByChannel(message) ==
    CASE message.channel = "trades" -> "Trade"
      [] message.channel = "books" -> "TopOfBook"
      [] message.channel = "tickers" -> "Ticker"
      [] OTHER -> "none"

\* OKXSpotPublicConnector.getEventType; "none" stands for null and undefined.
getEventType(message) ==
    IF message.event # "error"
    THEN CASE message.channel = "trades" -> "Trade"
           [] message.channel = "books" -> "TopOfBook"
           [] message.channel = "tickers" -> "Ticker"
           [] OTHER -> "none"
    ELSE "none"

\* What the sink is called with; NoCall when onMessage is not called.
NoCall == <<[event |-> "nocall"]>>

\* The record of the snapshot carried while the last message carried none.
NoSnapshot == [bids |-> <<>>, asks |-> <<>>, over |-> "none"]

\* The field of an entry of message.data that createSklEvent reads.
fieldOf(event) ==
    CASE event = "TopOfBook" -> "updates"
      [] event = "Trade" -> "trades"
      [] event = "Ticker" -> "tickers"

\* The entries of data before the first one that lacks the field: reading the
\* field of that one gives undefined, and the call on it is a TypeError.
RECURSIVE shapedPrefix(_, _)
shapedPrefix(data, field) ==
    IF data = <<>> THEN <<>>
    ELSE IF field \notin DOMAIN Head(data) THEN <<>>
    ELSE <<Head(data)>> \o shapedPrefix(Tail(data), field)

\* What the model remembers of the last wire message, its kind: "snapshot" or
\* "update" for a book message of one event, "books" for any other book
\* message, "malformed" for a message with an entry of unrecognized shape,
\* else "error", "unparseable", "other"; "login" and "orders" on the private
\* feed.
remembered(m) ==
    IF ~m.parses THEN "unparseable"
    ELSE IF m.event = "error" THEN "error"
    ELSE IF getEventType(m) = "none" THEN "other"
    ELSE IF \E i \in 1..Len(m.data) :
                fieldOf(getEventType(m)) \notin DOMAIN m.data[i]
    THEN "malformed"
    ELSE IF getEventType(m) # "TopOfBook" THEN "other"
    ELSE IF Len(m.data) = 1 THEN m.data[1].type
    ELSE "books"

\* A wire message of the private feed: the venue's answer to the login.
LoginReply(code) ==
    [parses |-> TRUE, event |-> "login", channel |-> "", code |-> code]
\* The other messages of the private feed: order updates on the channel the
\* handler looks for, and the venue's error event.
UserMessage(data) ==
    [parses |-> TRUE, event |-> "update", channel |-> "user", data |-> data]
PrivateErrorMessage ==
    [parses |-> TRUE, event |-> "error", channel |-> "", code |-> "60012"]
OkxOrder ==
    [ordId |-> "1", clOrdId |-> "skl", state |-> "live", side |-> "BUY",
     px |-> "100", sz |-> "5"]

PrivateFeed == {LoginReply("0"), LoginReply("60009")}

\* Every message of the private feed: the login answers, order updates
\* without and with an order, the venue's error, text that is not JSON.
PrivateMessages ==
    PrivateFeed \cup { UserMessage(<<>>), UserMessage(<<OkxOrder>>),
                       PrivateErrorMessage, UnparseableMessage }

\* The module-level getEventType the private onmessage handler calls.
privateGetEventType(message) ==
    IF message.channel = "user" THEN "OrderStatusUpdate" ELSE "none"

\* The names the private connector's module declares or imports.
moduleScope ==
    { "OkxWebsocketOrderUpdateStateMap", "OkxOpenOrdersStateMap",
      "OkxOrderTypeMap", "invertedSideMap", "getEventType", "OkxSideMap",
      "OkxInvertedSideMap", "getOkxSymbol", "getSklSymbol", "logger",
      "axios", "WebSocket", "CryptoJS", "Logger", "jwt", "crypto" }

\* OkxSpotPrivateConnector.createSklEvent: message.data.map over
\* createOrderStatusUpdate, whose first line reads OkxWSOrderUpdateStateMap,
\* a ReferenceError when no such name is declared.
privateCreateSklEvent(event, message) ==
    IF event = "OrderStatusUpdate"
    THEN IF Len(message.data) > 0
            /\ "OkxWSOrderUpdateStateMap" \notin moduleScope
         THEN [threw |-> TRUE, events |-> <<>>]
         ELSE [threw |-> FALSE,
               events |-> [i \in 1..Len(message.data) |->
                   [event |-> event, state |-> "Placed", side |-> "Buy",
                    orderId |-> message.data[i].ordId,
                    price |-> parseFloat(message.data[i].px),
                    size |-> parseFloat(message.data[i].sz)]]]
    ELSE [threw |-> FALSE, events |-> <<>>]

\* What the model remembers of the last wire message of the private feed.
privateRemembered(m) ==
    IF ~m.parses THEN "unparseable"
    ELSE IF m.event = "error" THEN "error"
    ELSE IF m.event = "login" THEN "login"
    ELSE IF privateGetEventType(m) = "OrderStatusUpdate" THEN "orders"
    ELSE "other"

\* ------------------------------------------------------- outbound frames
\* JSON.stringify: the text of a value.
stringify(value) == [json |-> value]

publicChannels ==
    << [channel |-> "tickers", instId |-> "BTC-USD"],
       [channel |-> "trades", instId |-> "BTC-USD"],
       [channel |-> "books", instId |-> "BTC-USD"] >>
privateChannels ==
    << [channel |-> "orders", instId |-> "ANY"],
       [channel |-> "account", instId |-> "ANY"] >>

\* subscribeToChannels / subscribeToPrivateChannels: the frame handed to send.
subscribeFrame(kind) ==
    stringify([op |-> "subscribe",
               args |-> IF kind = "public" THEN publicChannels
                        ELSE privateChannels])
\* unsubscribeFromChannels / unsubscribeFromPrivateChannels.
unsubscribeFrame(kind) ==
    stringify([op |-> "unsubscribe",
               args |-> IF kind = "public" THEN publicChannels
                        ELSE privateChannels])
\* authenticate: the login message is stringified twice.
loginFrame ==
    stringify(stringify([op |-> "login", args |-> <<"apiKey", "passphrase">>]))

\* ---------------------------------------------------------- order gateway
\* const OkxMaxBatchSize = 20 (placeOrders), okxMaxBatchSize (deleteAllOrders).
OkxMaxBatchSize == 20

\* A BatchOrdersRequest of n orders; the quantity tells the orders apart.
BatchOrdersRequest(n) ==
    [event |-> "BatchOrdersRequest", orders |-> [i \in 1..n |-> [quantity |-> i]]]

\* A CancelOrdersRequest carrying n order ids.
CancelOrdersRequest(n) ==
    [symbol |-> "sklSymbol", event |-> "CancelOrdersRequest",
     orderIds |-> [i \in 1..n |-> i]]

\* Array.prototype.slice(start, end): the entries at the 0-based indexes
\* start..end-1, end clipped to the length.
slice(array, start, end) ==
    SubSeq(array, start + 1, IF end < Len(array) THEN end ELSE Len(array))

\* The for loop of chunkArray from index i on.
RECURSIVE chunkLoop(_, _, _, _)
chunkLoop(array, chunkSize, i, results) ==
    IF i < Len(array)
    THEN chunkLoop(array, chunkSize, i + chunkSize,
                   Append(results, slice(array, i, i + chunkSize)))
    ELSE results

chunkArray(array, chunkSize) == chunkLoop(array, chunkSize, 0, <<>>)

\* undefined, the value of a promise that resolves with nothing.
Undefined == [value |-> "undefined"]

\* The properties an OkxSpotPrivateConnector instance has: axios is not one.
instanceProperties ==
    { "privateWebsocketAddress", "restUrl", "privateWebsocketFeed",
      "okxSymbol", "sklSymbol", "pingInterval", "group", "config",
      "credential" }

\* postRequest: the request is signed, then self.axios.post is called inside
\* the try block; reading post of the undefined self.axios is a TypeError,
\* which the catch logs, and the promise resolves with undefined.  httpSent
\* says whether a request reached the HTTP client.
postRequest(endpoint, params) ==
    IF "axios" \in instanceProperties
    THEN [httpSent |-> TRUE, value |-> [data |-> params]]
    ELSE [httpSent |-> FALSE, value |-> Undefined]

\* The identifiers declared where line 601 of placeOrders runs: the parameter
\* and the constant before it; the order of the map callback is not in scope.
placeOrdersScope == {"request", "OkxMaxBatchSize"}

\* request.orders.map of placeOrders: one venue order per order of the request.
mapOrders(orders) ==
    [i \in 1..Len(orders) |->
        [id |-> "skl", op |-> "order",
         args |-> <<[instId |-> "BTC-USDT", tdMode |-> "cash",
                     ordType |-> "market", sz |-> orders[i].quantity]>>]]

\* What a call of the gateway left: the call, the size of its request, the
\* batches chunkArray made, the parameters handed to postRequest one by one,
\* how the call's promise settled and, when it resolved, with what (for
\* deleteAllOrders, which resolves with nothing, what it logged).
GatewayCall(call, n, batches, requests, settled, results) ==
    [call |-> call, n |-> n, batches |-> batches, requests |-> requests,
     settled |-> settled, results |-> results]
NoRequest == GatewayCall("none", 0, <<>>, <<>>, "none", <<>>)

\* placeOrders(request): line 601 reads the identifier order; when that is a
\* ReferenceError the promise rejects before any order is mapped.  Otherwise
\* the orders are mapped, chunked, each batch is posted and the results of
\* Promise.all, one per batch, are returned.
placeOrders(request) ==
    IF "order" \notin placeOrdersScope
    THEN GatewayCall("placeOrders", Len(request.orders), <<>>, <<>>,
                     "rejected", <<>>)
    ELSE LET batches == chunkArray(mapOrders(request.orders), OkxMaxBatchSize)
             requests == [b \in 1..Len(batches) |->
                             [batchOrders |-> [json |-> batches[b]]]]
         IN  GatewayCall("placeOrders", Len(request.orders), batches, requests,
                 "resolved",
                 [b \in 1..Len(batches) |->
                     postRequest("/account/balance?ccy=BTC", requests[b]).value])

\* deleteAllOrders(request): chunkArray reads orderIds.length outside the try
\* block, a TypeError when the request has no orderIds; otherwise every batch
\* is posted and the results are logged.
deleteAllOrders(request) ==
    IF "orderIds" \notin DOMAIN request
    THEN GatewayCall("deleteAllOrders", 0, <<>>, <<>>, "rejected", <<>>)
    ELSE LET batches == chunkArray(request.orderIds, OkxMaxBatchSize)
             requests == [b \in 1..Len(batches) |->
                             [instId |-> "okxSymbol",
                              orders |-> [k \in 1..Len(batches[b]) |->
                                             [ordId |-> batches[b][k]]]]]
         IN  GatewayCall("deleteAllOrders", Len(request.orderIds), batches,
                 requests, "resolved",
                 [b \in 1..Len(batches) |->
                     postRequest("/api/v5/trade/cancel-batch-orders",
                                 requests[b]).value])

\* -------------------------------------------------------- request signing
\* The credential given to the constructor of the private connector.
credential == [key |-> "key", secret |-> "secret", passphrase |-> "passphrase"]

\* Date.now() when the connector is constructed, in milliseconds.
FirstNow == 998

\* CryptoJS.HmacSHA256(message, key) and CryptoJS.enc.Base64.stringify: a
\* keyed hash without collisions and its encoding.
HmacSHA256(message, key) == [hmac |-> message, key |-> key]
Base64(words) == [base64 |-> words]

\* The text of the number ms / 1000, as a template literal or toString()
\* writes it: the integer part, then the thousandths without trailing zeros.
secondsText(ms) ==
    LET f == ms % 1000
        whole == ToString(ms \div 1000)
    IN  IF f = 0 THEN whole
        ELSE IF f % 100 = 0 THEN whole \o "." \o ToString(f \div 100)
        ELSE IF f % 10 = 0
        THEN whole \o "." \o ToString(f \div 100) \o ToString((f \div 10) % 10)
        ELSE whole \o "." \o ToString(f \div 100) \o ToString((f \div 10) % 10)
                   \o ToString(f % 10)

\* JSON.stringify(params) of a request body: a text that tells values apart.
jsonText(value) == ToString(value)

\* new URLSearchParams(params).toString(): key=value pairs joined by &.
RECURSIVE URLSearchParams(_)
URLSearchParams(params) ==
    IF Len(params) = 0 THEN ""
    ELSE IF Len(params) = 1 THEN params[1].key \o "=" \o params[1].value
    ELSE params[1].key \o "=" \o params[1].value \o "&"
         \o URLSearchParams(Tail(params))

\* What one signing left: the operation, the clock it read, the secret, the
\* timestamp, method, path and body text that went into the signature, the
\* signature, and the timestamp, path and body the request carries.
SignedRequest(op, now, secret, ts, method, path, body, sentTs, sentPath, sentBody) ==
    [operation |-> op, now |-> now, secret |-> secret, timestamp |-> ts,
     method |-> method, requestPath |-> path, body |-> body,
     sign |-> Base64(HmacSHA256(ts \o method \o path \o body, secret)),
     sentTimestamp |-> sentTs, sentPath |-> sentPath, sentBody |-> sentBody]

\* postRequest, lines 643-657: the timestamp is Date.now() / 1000, the body
\* is the JSON text of the parameters, and the header carries
\* timestamp.toString().
postRequestSigns(secret, now, endpoint, params) ==
    SignedRequest("postRequest", now, secret, secondsText(now), "POST",
                  "/api/v5" \o endpoint, jsonText(params),
                  secondsText(now), "/api/v5" \o endpoint, jsonText(params))

\* getRequest, lines 693-709: queryString is still '' when the signature is
\* computed and is set from the parameters afterwards; the URL requested is
\* restUrl, requestPath and queryString.
getRequestSigns(secret, now, route, params) ==
    LET timestamp == ToString(now \div 1000)
        requestPath == "/api/v5" \o route
        queryString == IF Len(params) > 0
                       THEN "?" \o URLSearchParams(params) ELSE ""
    IN  SignedRequest("getRequest", now, secret, timestamp, "GET",
                      requestPath, "", timestamp,
                      requestPath \o queryString, "")

\* getRequest, lines 711-715: get is read of the undefined self.axios inside
\* the try block; the catch logs and the promise resolves with undefined.
getRequest(route, params) ==
    IF "axios" \in instanceProperties
    THEN [httpSent |-> TRUE, value |-> [data |-> params]]
    ELSE [httpSent |-> FALSE, value |-> Undefined]

\* authenticate, lines 539-542: the timestamp is Date.now(), nothing follows
\* the path in the signed text, and the login message carries the timestamp.
authenticate(secret, now) ==
    SignedRequest("login", now, secret, ToString(now), "GET",
                  "/users/self/verify", "", ToString(now),
                  "/users/self/verify", "")

\* The signings of deleteAllOrders(request): one postRequest per batch.
deleteAllOrdersSigns(secret, now, request) ==
    LET call == deleteAllOrders(request)
    IN  [b \in 1..Len(call.requests) |->
            postRequestSigns(secret, now, "/api/v5/trade/cancel-batch-orders",
                             call.requests[b])]

\* ------------------------------------------------------------------ state
VARIABLES
    connector,        \* "public" or "private": the class of this instance
    sockets,          \* every WebSocket created so far, in creation order
    websocketFeed,    \* publicWebsocketFeed / privateWebsocketFeed: index, 0 = undefined
    reconnectTimers,  \* sockets whose close handler's setTimeout is pending
    pingInterval,     \* this.pingInterval: an interval id, 0 = null/undefined
    intervals,        \* ids of the setInterval timers still live
    bids, asks,       \* the order book of the public connector
    crashed,          \* an exception left a socket or timer callback uncaught
    stopped,          \* stop() has returned and the caller has not connected since
    callerConnects,   \* connect() calls made by the caller
    timersAtStop,     \* reconnect timers that were pending when stop() ran
    socketsAtStop,    \* number of sockets when stop() ran
    closedByStop,     \* the socket stop() called close() on, 0 if it did not
    lastMsg,          \* the kind of the last wire message a handler took
    delivered,        \* the sink call that message caused, NoCall if none
    scenario,         \* progress of the last messages through the example
    snapshotOf,       \* what the snapshot ending the last book message carried
    gateway,          \* the last placeOrders / deleteAllOrders call and its outcome
    clock,            \* Date.now(), in milliseconds
    signed            \* the signings made by the last login or gateway call

vars ==
    << connector, sockets, websocketFeed, reconnectTimers, pingInterval,
       intervals, bids, asks, crashed, stopped, callerConnects, timersAtStop,
       socketsAtStop, closedByStop, lastMsg, delivered, scenario, snapshotOf,
       gateway, clock, signed >>

signerVars == << clock, signed >>
bookVars == << bids, asks, lastMsg, delivered, scenario, snapshotOf >>
stopVars == << stopped, timersAtStop, socketsAtStop, closedByStop >>
pingVars == << pingInterval, intervals >>

SocketIds == 1..Len(sockets)

\* The open handler taking the subscriptions to outlive the first socket:
\* nothing is sent on a later one.
openFramesFirstOnly(kind) ==
    IF Len(sockets) > 1 THEN <<>>
    ELSE IF kind = "public" THEN <<subscribeFrame(kind)>>
    ELSE <<loginFrame, subscribeFrame(kind)>>

\* The open handler subscribing before it logs in.
openFramesSubscribeFirst(kind) ==
    IF kind = "public" THEN <<subscribeFrame(kind)>>
    ELSE <<subscribeFrame(kind), loginFrame>>

\* The frames the open handler sends, in order.
openFrames(kind) ==
    IF kind = "public" THEN <<subscribeFrame(kind)>>
    ELSE <<loginFrame, subscribeFrame(kind)>>

\* new WebSocket(url): readyState CONNECTING, nothing sent.  sent holds the
\* control frames sent on it, in order; origin and handshake record who made
\* it and whether its open handler ran while it was the feed.  While the
\* socket is not closed, errored says whether it has emitted 'error', pinged
\* whether a PING frame was sent on it, login what the venue answered to its
\* login.
newWebSocket(origin) ==
    [state |-> "CONNECTING", origin |-> origin, errored |-> FALSE,
     sent |-> <<>>, pinged |-> FALSE, login |-> "none", handshake |-> FALSE]

Init ==
    /\ connector \in {"public", "private"}
    /\ sockets = <<>>
    /\ websocketFeed = 0
    /\ reconnectTimers = {}
    /\ pingInterval = 0
    /\ intervals = {}
    /\ bids = <<>>
    /\ asks = <<>>
    /\ crashed = FALSE
    /\ stopped = FALSE
    /\ callerConnects = 0
    /\ timersAtStop = {}
    /\ socketsAtStop = 0
    /\ closedByStop = 0
    /\ lastMsg = "none"
    /\ delivered = NoCall
    /\ scenario = 0
    /\ snapshotOf = NoSnapshot
    /\ gateway = NoRequest
    /\ clock = FirstNow
    /\ signed = <<>>

\* ------------------------------------------------------------ ws library
\* What this.<feed>.send(frame) does: "sent" on an open socket; a TypeError
\* on an undefined feed and an Error on a connecting socket; on a closing or
\* closed socket the frame is dropped or an Error is thrown, by ws version.
sendOutcomes(socks) ==
    IF websocketFeed = 0 THEN {"throw"}
    ELSE CASE socks[websocketFeed].state = "CONNECTING" -> {"throw"}
           [] socks[websocketFeed].state = "OPEN" -> {"sent"}
           [] OTHER -> {"throw", "dropped"}

\* The sockets after frames were handed to send on the feed with that outcome.
afterSend(socks, frames, outcome) ==
    IF outcome = "sent"
    THEN [socks EXCEPT ![websocketFeed].sent = @ \o frames]
    ELSE socks

\* Room in the record of sent frames.
canRecord(n) ==
    IF websocketFeed = 0 THEN TRUE
    ELSE Len(sockets[websocketFeed].sent) + n <= MaxFrames

\* WebSocket.close(): an open socket starts its closing handshake; a closing
\* or closed one is left as it is.
close(socks) ==
    IF socks[websocketFeed].state = "OPEN"
    THEN [socks EXCEPT ![websocketFeed].state = "CLOSING"]
    ELSE socks

\* ------------------------------------------------------------- connect()
\* new Promise((resolve) => { ... }): the promise connect() awaits and
\* returns, kept with the socket its executor creates.
newPromise == [promise |-> "pending"]

\* The body of connect(): a new socket becomes the feed; its handlers are the
\* actions TransportOpen, OnMessage, TransportError and TransportClose.
connect(origin) ==
    /\ Len(sockets) < MaxSockets
    /\ sockets' = Append(sockets, newWebSocket(origin) @@ newPromise)
    /\ websocketFeed' = Len(sockets) + 1

\* The caller calls connect(onMessage): on a fresh or a stopped connector.
CallerConnect ==
    /\ ~crashed
    /\ (IF Len(sockets) = 0 THEN TRUE ELSE stopped)
    /\ connect("caller")
    /\ callerConnects' = callerConnects + 1
    /\ stopped' = FALSE
    /\ timersAtStop' = {}
    /\ socketsAtStop' = 0
    /\ closedByStop' = 0
    /\ UNCHANGED << connector, gateway, signerVars, reconnectTimers, pingVars, crashed, bookVars >>

\* The setTimeout callback of a close handler: connect(onMessage) again.
ReconnectTimerFires(s) ==
    /\ ~crashed
    /\ s \in reconnectTimers
    /\ reconnectTimers' = reconnectTimers \ {s}
    /\ connect("timer")
    /\ UNCHANGED << connector, gateway, signerVars, pingVars, crashed, callerConnects, stopVars,
                    bookVars >>

\* ---------------------------------------------------------- ping interval
\* startPingInterval: a new setInterval; its id overwrites this.pingInterval.
startPingInterval(id) ==
    /\ pingInterval' = id
    /\ intervals' = intervals \cup {id}

\* stopPingInterval: clearInterval and null, when this.pingInterval is set.
stopPingInterval ==
    IF pingInterval # 0
    THEN /\ intervals' = intervals \ {pingInterval}
         /\ pingInterval' = 0
    ELSE UNCHANGED pingVars

\* ------------------------------------------------------- socket handlers
\* An open handler that resolves the promise of its connect() call.
TransportOpenResolves(s) ==
    /\ ~crashed
    /\ s \in SocketIds
    /\ sockets[s].state = "CONNECTING"
    /\ canRecord(Len(openFrames(connector)))
    /\ LET opened == [sockets EXCEPT ![s].state = "OPEN",
                                     ![s].handshake = (s = websocketFeed),
                                     ![s].promise = "resolved"]
       IN  \E outcome \in sendOutcomes(opened) :
              /\ sockets' = afterSend(opened, openFrames(connector), outcome)
              /\ crashed' = (outcome = "throw")
    /\ IF connector = "private"
       THEN /\ startPingInterval(s)
            /\ signed' = <<authenticate(credential.secret, clock)>>
       ELSE UNCHANGED << pingVars, signed >>
    /\ UNCHANGED << connector, gateway, clock, websocketFeed, reconnectTimers,
                    callerConnects, stopVars, bookVars >>

\* on('open'): the public handler subscribes; the private handler starts the
\* ping interval, sends the login and subscribes at once.  The frames go to
\* the feed, which is the newest socket; an exception of send leaves the
\* handler uncaught.
TransportOpen(s) ==
    /\ ~crashed
    /\ s \in SocketIds
    /\ sockets[s].state = "CONNECTING"
    /\ canRecord(Len(openFrames(connector)))
    /\ LET opened == [sockets EXCEPT ![s].state = "OPEN",
                                     ![s].handshake = (s = websocketFeed)]
       IN  \E outcome \in sendOutcomes(opened) :
              /\ sockets' = afterSend(opened, openFrames(connector), outcome)
              /\ crashed' = (outcome = "throw")
    /\ IF connector = "private"
       THEN /\ startPingInterval(s)
            /\ signed' = <<authenticate(credential.secret, clock)>>
       ELSE UNCHANGED << pingVars, signed >>
    /\ UNCHANGED << connector, gateway, clock, websocketFeed, reconnectTimers,
                    callerConnects, stopVars, bookVars >>

\* An error handler that schedules connect(onMessage) as the close handler
\* does.
TransportErrorReconnects(s) ==
    /\ ~crashed
    /\ s \in SocketIds
    /\ sockets[s].state \in {"CONNECTING", "OPEN"}
    /\ ~sockets[s].errored
    /\ sockets' = [sockets EXCEPT ![s].errored = TRUE]
    /\ reconnectTimers' = reconnectTimers \cup {s}
    /\ UNCHANGED << connector, gateway, signerVars, websocketFeed, pingVars,
                    crashed, callerConnects, stopVars, bookVars >>

\* on('error'): the handler logs the error and does nothing else.
TransportError(s) ==
    /\ ~crashed
    /\ s \in SocketIds
    /\ sockets[s].state \in {"CONNECTING", "OPEN"}
    /\ ~sockets[s].errored
    /\ sockets' = [sockets EXCEPT ![s].errored = TRUE]
    /\ UNCHANGED << connector, gateway, signerVars, websocketFeed, reconnectTimers, pingVars,
                    crashed, callerConnects, stopVars, bookVars >>

\* A close handler that also empties the order book.
TransportCloseResetsBook(s) ==
    /\ ~crashed
    /\ s \in SocketIds
    /\ sockets[s].state \in {"CONNECTING", "OPEN", "CLOSING"}
    /\ sockets' = [sockets EXCEPT ![s].state = "CLOSED",
                                   ![s].errored = FALSE,
                                   ![s].pinged = FALSE,
                                   ![s].login = "none"]
    /\ IF connector = "private" THEN stopPingInterval ELSE UNCHANGED pingVars
    /\ reconnectTimers' = reconnectTimers \cup {s}
    /\ bids' = <<>>
    /\ asks' = <<>>
    /\ UNCHANGED << connector, gateway, signerVars, websocketFeed, crashed,
                    callerConnects, stopVars, lastMsg, delivered, scenario,
                    snapshotOf >>

\* on('close'): the private handler stops the ping interval; both schedule
\* connect(onMessage) after 1000 ms.
TransportClose(s) ==
    /\ ~crashed
    /\ s \in SocketIds
    /\ sockets[s].state \in {"CONNECTING", "OPEN", "CLOSING"}
    /\ sockets' = [sockets EXCEPT ![s].state = "CLOSED",
                                   ![s].errored = FALSE,
                                   ![s].pinged = FALSE,
                                   ![s].login = "none"]
    /\ IF connector = "private" THEN stopPingInterval ELSE UNCHANGED pingVars
    /\ reconnectTimers' = reconnectTimers \cup {s}
    /\ UNCHANGED << connector, gateway, signerVars, websocketFeed, crashed, callerConnects,
                    stopVars, bookVars >>

\* The setInterval callback: a PING frame to the feed; an exception of send
\* leaves the callback uncaught.
PingTick(id) ==
    /\ ~crashed
    /\ id \in intervals
    /\ \E outcome \in sendOutcomes(sockets) :
          /\ sockets' = IF outcome = "sent"
                        THEN [sockets EXCEPT ![websocketFeed].pinged = TRUE]
                        ELSE sockets
          /\ crashed' = (outcome = "throw")
    /\ UNCHANGED << connector, gateway, signerVars, websocketFeed, reconnectTimers, pingVars,
                    callerConnects, stopVars, bookVars >>

\* --------------------------------------------------------------- onmessage
\* createTrade and createTicker; createTicker reads trade.price, which a
\* ticker entry does not have: parseFloat(undefined) is NaN.
createTrade(trade) ==
    [event |-> "Trade", price |-> parseFloat(trade.price),
     size |-> parseFloat(trade.size)]
createTicker(ticker) ==
    [event |-> "Ticker",
     lastPrice |-> IF "price" \in DOMAIN ticker
                   THEN parseFloat(ticker.price) ELSE "NaN"]

\* trades.flatMap(event => event.trades.map(createTrade)), and the same for
\* the tickers.
RECURSIVE flatMapTrades(_)
flatMapTrades(data) ==
    IF data = <<>> THEN <<>>
    ELSE [i \in 1..Len(Head(data).trades) |-> createTrade(Head(data).trades[i])]
            \o flatMapTrades(Tail(data))
RECURSIVE flatMapTickers(_)
flatMapTickers(data) ==
    IF data = <<>> THEN <<>>
    ELSE [i \in 1..Len(Head(data).tickers) |->
             createTicker(Head(data).tickers[i])]
            \o flatMapTickers(Tail(data))

\* createSklEvent, and the filter of the nulls that the handler applies to
\* its result: the book after the updateBook calls made, the events left for
\* the sink, and whether a TypeError left the call (an entry of message.data
\* without the field read; the entries before it have been applied by then).
createSklEvent(event, book, message) ==
    LET data == shapedPrefix(message.data, fieldOf(event))
        threw == data # message.data
    IN  IF event = "TopOfBook"
        THEN LET after == updateBookAll(book, data)
                 top == createTopOfBook(after)
             IN  [book |-> after, threw |-> threw,
                  events |-> IF top = Null THEN <<>> ELSE <<top>>]
        ELSE IF event = "Trade"
        THEN [book |-> book, threw |-> threw, events |-> flatMapTrades(data)]
        ELSE [book |-> book, threw |-> threw, events |-> flatMapTickers(data)]

\* What the last event of a book message, when it is a snapshot, carries for
\* each side, and whether the book held anything before the message.
snapshotCarried(book, m) ==
    IF m.parses /\ getEventType(m) = "TopOfBook" /\ Len(m.data) > 0
       /\ (\A i \in 1..Len(m.data) : "updates" \in DOMAIN m.data[i])
       /\ m.data[Len(m.data)].type = "snapshot"
    THEN LET updates == m.data[Len(m.data)].updates
         IN  [bids |-> SelectSeq(updates, LAMBDA u : u.side = "bid"),
              asks |-> SelectSeq(updates, LAMBDA u : u.side = "offer"),
              over |-> IF book.bids # <<>> \/ book.asks # <<>>
                       THEN "book" ELSE "empty"]
    ELSE NoSnapshot

\* The public onmessage handler on socket s for wire message m: an exception
\* of JSON.parse or of createSklEvent is caught and logged.
PublicOnMessage(s, m) ==
    /\ ~crashed
    /\ connector = "public"
    /\ s \in SocketIds
    /\ sockets[s].state = "OPEN"
    /\ lastMsg' = remembered(m)
    /\ scenario' = scenarioStep(scenario, m)
    /\ snapshotOf' = snapshotCarried([bids |-> bids, asks |-> asks], m)
    /\ IF m.parses /\ getEventType(m) # "none"
       THEN \E result \in {createSklEvent(getEventType(m),
                                          [bids |-> bids, asks |-> asks], m)} :
                /\ bids' = result.book.bids
                /\ asks' = result.book.asks
                /\ delivered' = IF ~result.threw /\ Len(result.events) > 0
                                THEN result.events ELSE NoCall
       ELSE /\ UNCHANGED << bids, asks >>
            /\ delivered' = NoCall
    /\ UNCHANGED << connector, gateway, signerVars, sockets, websocketFeed,
                    reconnectTimers, pingVars, crashed, callerConnects,
                    stopVars >>

\* The private onmessage handler on socket s for wire message m: nothing
\* catches an exception of JSON.parse or of createSklEvent, and the sink is
\* called with whatever createSklEvent returns.  The venue answers a login
\* once; the model records the answer on the socket.
PrivateOnMessage(s, m) ==
    /\ ~crashed
    /\ connector = "private"
    /\ s \in SocketIds
    /\ sockets[s].state = "OPEN"
    /\ m.event = "login" =>
          /\ \E i \in 1..Len(sockets[s].sent) : sockets[s].sent[i] = loginFrame
          /\ sockets[s].login = "none"
    /\ lastMsg' = privateRemembered(m)
    /\ IF ~m.parses
       THEN /\ crashed' = TRUE
            /\ delivered' = NoCall
            /\ UNCHANGED sockets
       ELSE IF privateGetEventType(m) # "none"
       THEN \E result \in {privateCreateSklEvent(privateGetEventType(m), m)} :
                /\ crashed' = result.threw
                /\ delivered' = IF result.threw THEN NoCall
                                ELSE result.events
                /\ UNCHANGED sockets
       ELSE /\ sockets' = IF m.event = "login"
                          THEN [sockets EXCEPT ![s].login =
                                   IF m.code = "0" THEN "ok" ELSE "rejected"]
                          ELSE sockets
            /\ delivered' = NoCall
            /\ UNCHANGED crashed
    /\ UNCHANGED << connector, gateway, signerVars, websocketFeed, reconnectTimers,
                    pingVars, callerConnects, stopVars, bids, asks, scenario,
                    snapshotOf >>

\* ------------------------------------------------------------------ stop()
\* What stop() leaves for the claims about it.
stopRecord(closedSocket) ==
    /\ stopped' = TRUE
    /\ timersAtStop' = reconnectTimers
    /\ socketsAtStop' = Len(sockets)
    /\ closedByStop' = closedSocket

\* OKXSpotPublicConnector.stop: unsubscribe, then close, in one try block.
PublicStop ==
    /\ ~crashed
    /\ connector = "public"
    /\ canRecord(1)
    /\ \E outcome \in sendOutcomes(sockets) :
          IF outcome = "throw"
          THEN /\ UNCHANGED sockets
               /\ stopRecord(0)
          ELSE /\ sockets' = close(afterSend(sockets,
                                   <<unsubscribeFrame(connector)>>, outcome))
               /\ stopRecord(IF outcome = "sent" THEN websocketFeed ELSE 0)
    /\ UNCHANGED << connector, gateway, signerVars, websocketFeed, reconnectTimers, pingVars,
                    crashed, callerConnects, bookVars >>

\* The request stop() hands to deleteAllOrders: it has no orderIds.
stopCancelRequest == [symbol |-> "sklSymbol", event |-> "CancelOrdersRequest"]

\* deleteAllOrders up to its try block: chunkArray reads array.length of
\* request.orderIds, a TypeError when the request has none.
deleteAllOrdersThrows(request) == deleteAllOrders(request).settled = "rejected"

\* OkxSpotPrivateConnector.stop: unsubscribe, clearInterval, deleteAllOrders,
\* stopPingInterval, close, in one try block.
PrivateStop ==
    /\ ~crashed
    /\ connector = "private"
    /\ canRecord(1)
    /\ \E outcome \in sendOutcomes(sockets) :
          IF outcome = "throw"
          THEN /\ UNCHANGED << sockets, pingVars, gateway, signed >>
               /\ stopRecord(0)
          ELSE IF deleteAllOrdersThrows(stopCancelRequest)
          THEN /\ sockets' = afterSend(sockets,
                                 <<unsubscribeFrame(connector)>>, outcome)
               /\ intervals' = intervals \ {pingInterval}
               /\ UNCHANGED pingInterval
               /\ gateway' = deleteAllOrders(stopCancelRequest)
               /\ signed' = deleteAllOrdersSigns(credential.secret, clock,
                                                 stopCancelRequest)
               /\ stopRecord(0)
          ELSE /\ sockets' = close(afterSend(sockets,
                                   <<unsubscribeFrame(connector)>>, outcome))
               /\ intervals' = intervals \ {pingInterval}
               /\ pingInterval' = 0
               /\ gateway' = deleteAllOrders(stopCancelRequest)
               /\ signed' = deleteAllOrdersSigns(credential.secret, clock,
                                                 stopCancelRequest)
               /\ stopRecord(IF outcome = "sent" THEN websocketFeed ELSE 0)
    /\ UNCHANGED << connector, clock, websocketFeed, reconnectTimers,
                    crashed, callerConnects, bookVars >>

\* ----------------------------------------------------- gateway operations
\* The caller calls placeOrders with a request of n orders.
PlaceOrders(n) ==
    /\ ~crashed
    /\ connector = "private"
    /\ gateway' = placeOrders(BatchOrdersRequest(n))
    /\ signed' = [b \in 1..Len(placeOrders(BatchOrdersRequest(n)).requests) |->
                     postRequestSigns(credential.secret, clock,
                         "/account/balance?ccy=BTC",
                         placeOrders(BatchOrdersRequest(n)).requests[b])]
    /\ UNCHANGED << connector, clock, sockets, websocketFeed,
                    reconnectTimers, pingVars, crashed, callerConnects,
                    stopVars, bookVars >>

\* The caller calls deleteAllOrders with a request of n order ids.
DeleteAllOrders(n) ==
    /\ ~crashed
    /\ connector = "private"
    /\ gateway' = deleteAllOrders(CancelOrdersRequest(n))
    /\ signed' = deleteAllOrdersSigns(credential.secret, clock,
                                      CancelOrdersRequest(n))
    /\ UNCHANGED << connector, clock, sockets, websocketFeed, reconnectTimers,
                    pingVars, crashed, callerConnects, stopVars, bookVars >>

\* The value Promise.all holds for a promise that has not settled yet.
Awaited == [value |-> "awaited"]

\* The endpoint a call of the gateway posts its batches to.
endpointOf(call) ==
    IF call = "placeOrders" THEN "/account/balance?ccy=BTC"
    ELSE "/api/v5/trade/cancel-batch-orders"

\* A gateway call up to its await of Promise.all: postRequest has been
\* called for every batch, in order, and no promise has settled; a call that
\* threw before has rejected.
awaiting(call) ==
    IF call.settled = "rejected" THEN call
    ELSE [call EXCEPT !.settled = "pending",
                      !.results = [b \in 1..Len(call.batches) |-> Awaited]]

\* The signings of the postRequest calls of a gateway call.
signings(call) ==
    [b \in 1..Len(call.requests) |->
        postRequestSigns(credential.secret, clock, endpointOf(call.call),
                         call.requests[b])]

\* The caller calls placeOrders with n orders: the synchronous part.
PlaceOrdersStart(n) ==
    /\ ~crashed
    /\ connector = "private"
    /\ gateway.settled # "pending"
    /\ gateway' = awaiting(placeOrders(BatchOrdersRequest(n)))
    /\ signed' = signings(placeOrders(BatchOrdersRequest(n)))
    /\ UNCHANGED << connector, clock, sockets, websocketFeed, reconnectTimers,
                    pingVars, crashed, callerConnects, stopVars, bookVars >>

\* The caller calls deleteAllOrders with n order ids: the synchronous part.
DeleteAllOrdersStart(n) ==
    /\ ~crashed
    /\ connector = "private"
    /\ gateway.settled # "pending"
    /\ gateway' = awaiting(deleteAllOrders(CancelOrdersRequest(n)))
    /\ signed' = signings(deleteAllOrders(CancelOrdersRequest(n)))
    /\ UNCHANGED << connector, clock, sockets, websocketFeed, reconnectTimers,
                    pingVars, crashed, callerConnects, stopVars, bookVars >>

\* The promise of the postRequest of batch b settles.  A request handed to
\* the HTTP client finishes at any time; one that never reached it settles
\* in the order the promises were made.
BatchSettles(b) ==
    /\ gateway.settled = "pending"
    /\ b \in 1..Len(gateway.results)
    /\ gateway.results[b] = Awaited
    /\ LET answer == postRequest(endpointOf(gateway.call), gateway.requests[b])
       IN  /\ answer.httpSent
              \/ \A a \in 1..(b - 1) : gateway.results[a] # Awaited
           /\ gateway' = [gateway EXCEPT !.results[b] = answer.value]
    /\ UNCHANGED << connector, signerVars, sockets, websocketFeed,
                    reconnectTimers, pingVars, crashed, callerConnects,
                    stopVars, bookVars >>

\* Promise.all resolves once every promise has: placeOrders returns the
\* results, deleteAllOrders logs them and returns nothing.
PromiseAllResolves ==
    /\ gateway.settled = "pending"
    /\ \A b \in 1..Len(gateway.results) : gateway.results[b] # Awaited
    /\ gateway' = [gateway EXCEPT !.settled = "resolved"]
    /\ UNCHANGED << connector, signerVars, sockets, websocketFeed,
                    reconnectTimers, pingVars, crashed, callerConnects,
                    stopVars, bookVars >>

\* getBalancePercentage(request): one signed GET without parameters; the
\* result of getRequest is undefined, and reading result.data rejects the
\* promise.
GetBalancePercentage ==
    /\ ~crashed
    /\ connector = "private"
    /\ signed' = <<getRequestSigns(credential.secret, clock,
                                   "/api/v5/account/balance", <<>>)>>
    /\ gateway' = GatewayCall("getBalancePercentage", 0, <<>>, <<>>,
            IF getRequest("/api/v5/account/balance", <<>>).value = Undefined
            THEN "rejected" ELSE "resolved", <<>>)
    /\ UNCHANGED << connector, clock, sockets, websocketFeed, reconnectTimers,
                    pingVars, crashed, callerConnects, stopVars, bookVars >>

\* The parameters getCurrentActiveOrders hands to getRequest: exchangeSymbol
\* is not a property of the instance, so symbol is undefined.
openOrdersParams ==
    << [key |-> "symbol",
        value |-> IF "exchangeSymbol" \in instanceProperties
                  THEN "exchangeSymbol" ELSE "undefined"] >>

\* getCurrentActiveOrders(request): one signed GET with the symbol as
\* parameter; the response of getRequest is undefined, and response.map
\* rejects the promise.
GetCurrentActiveOrders ==
    /\ ~crashed
    /\ connector = "private"
    /\ signed' = <<getRequestSigns(credential.secret, clock,
                                   "/api/v3/openOrders", openOrdersParams)>>
    /\ gateway' = GatewayCall("getCurrentActiveOrders", 0, <<>>, <<>>,
            IF getRequest("/api/v3/openOrders", openOrdersParams).value
                   = Undefined
            THEN "rejected" ELSE "resolved", <<>>)
    /\ UNCHANGED << connector, clock, sockets, websocketFeed, reconnectTimers,
                    pingVars, crashed, callerConnects, stopVars, bookVars >>

\* Time passes: Date.now() advances by a millisecond.
ClockTick ==
    /\ clock < MaxClock
    /\ clock' = clock + 1
    /\ UNCHANGED << connector, gateway, signed, sockets, websocketFeed,
                    reconnectTimers, pingVars, crashed, callerConnects,
                    stopVars, bookVars >>

\* ---------------------------------------------------------- specifications
\* The messages of the feed while the socket lifecycle is explored.
LifecycleFeed ==
    { ErrorMessage, UnparseableMessage, ScenarioSnapshot, ScenarioRemove,
      ScenarioAdd }

Next ==
    \/ CallerConnect
    \/ \E s \in SocketIds : TransportOpen(s)
    \/ \E s \in SocketIds : TransportError(s)
    \/ \E s \in SocketIds : TransportClose(s)
    \/ \E s \in reconnectTimers : ReconnectTimerFires(s)
    \/ \E id \in intervals : PingTick(id)
    \/ \E s \in SocketIds, m \in LifecycleFeed : PublicOnMessage(s, m)
    \/ \E s \in SocketIds, m \in PrivateFeed : PrivateOnMessage(s, m)
    \/ PublicStop
    \/ PrivateStop

Spec == Init /\ [][Next]_vars

\* The public connector on one connection, fed every book message.
InitBook == Init /\ connector = "public"

NextBook ==
    \/ CallerConnect
    \/ \E s \in SocketIds : TransportOpen(s)
    \/ \E s \in SocketIds, m \in BookFeed : PublicOnMessage(s, m)

SpecBook == InitBook /\ [][NextBook]_vars

\* The private connector on one connection, its order gateway called.
InitOrders == Init /\ connector = "private"

NextOrders ==
    \/ CallerConnect
    \/ \E s \in SocketIds : TransportOpen(s)
    \/ \E n \in 0..MaxOrders : PlaceOrders(n)
    \/ \E n \in 0..MaxOrders : DeleteAllOrders(n)

SpecOrders == InitOrders /\ [][NextOrders]_vars

\* The private connector on one connection while time passes: its login and
\* its signed REST operations.
NextSigner ==
    \/ CallerConnect
    \/ \E s \in SocketIds : TransportOpen(s)
    \/ ClockTick
    \/ \E n \in {0, 1, OkxMaxBatchSize + 1} : DeleteAllOrders(n)
    \/ GetBalancePercentage
    \/ GetCurrentActiveOrders

SpecSigner == InitOrders /\ [][NextSigner]_vars

\* The private connector on one connection, its gateway calls followed from
\* the call through the settling of every batch to the return.
NextBatches ==
    \/ CallerConnect
    \/ \E s \in SocketIds : TransportOpen(s)
    \/ \E n \in 0..MaxOrders : PlaceOrdersStart(n)
    \/ \E n \in 0..MaxOrders : DeleteAllOrdersStart(n)
    \/ \E b \in 1..Len(gateway.results) : BatchSettles(b)
    \/ PromiseAllResolves

SpecBatches == InitOrders /\ [][NextBatches]_vars

\* Every kind of message of the public feed: those of the lifecycle, the
\* venue's answer to a subscription, book messages of unrecognized shape,
\* trades and tickers.
PublicMessages ==
    LifecycleFeed \cup
    { SubscribeAck,
      BookMessage(<<ShapelessEvent>>),
      BookMessage(<<MarketDepthEvent("snapshot", <<Level("bid", "99", "2")>>),
                    ShapelessEvent>>),
      TradeMessage(<<>>), TradeMessage(<<OkxTradeEvent(<<>>)>>),
      TradeMessage(<<OkxTradeEvent(<<OkxTrade>>)>>),
      TradeMessage(<<OkxTradeEvent(<<OkxTrade>>), ShapelessEvent>>),
      TickerMessage(<<>>), TickerMessage(<<OkxTickerEvent(<<>>)>>),
      TickerMessage(<<OkxTickerEvent(<<OkxTicker>>)>>) }

\* Either connector through connections, transport errors, closes and
\* reconnects, fed every kind of message.
NextFeed ==
    \/ CallerConnect
    \/ \E s \in SocketIds : TransportOpen(s)
    \/ \E s \in SocketIds : TransportError(s)
    \/ \E s \in SocketIds : TransportClose(s)
    \/ \E s \in reconnectTimers : ReconnectTimerFires(s)
    \/ \E s \in SocketIds, m \in PublicMessages : PublicOnMessage(s, m)
    \/ \E s \in SocketIds, m \in PrivateMessages : PrivateOnMessage(s, m)

SpecFeed == Init /\ [][NextFeed]_vars

\* ------------------------------------------------------------ properties
hasPrice(list, price) == \E i \in 1..Len(list) : list[i].price_level = price

\* list without its k-th entry, every other entry in place and in order.
isRemovalAt(list, k, result) ==
    /\ Len(result) = Len(list) - 1
    /\ \A i \in 1..Len(result) :
          result[i] = IF i < k THEN list[i] ELSE list[i + 1]

TopOfBookEvent(bid, ask) ==
    [event |-> "TopOfBook",
     askPrice |-> parseFloat(ask.price_level),
     askSize |-> parseFloat(ask.new_quantity),
     bidPrice |-> parseFloat(bid.price_level),
     bidSize |-> parseFloat(bid.new_quantity)]

afterBookMessage == lastMsg \in {"snapshot", "update", "books"}

\* The book message that carries the one update u.
SingleUpdate(u) == BookMessage(<<MarketDepthEvent("update", <<u>>)>>)

\* C1: after a snapshot and any deltas, each side holds at most one entry per
\* price, bids strictly descending and asks strictly ascending by price.
C1_BookSortedUnique ==
    /\ \A i, j \in 1..Len(bids) :
          i < j => parseFloat(bids[i].price_level)
                      > parseFloat(bids[j].price_level)
    /\ \A i, j \in 1..Len(asks) :
          i < j => parseFloat(asks[i].price_level)
                      < parseFloat(asks[j].price_level)

\* C2: a reconnect timer that is pending when stop() runs never fires: no
\* socket is created after that stop().
C2_StopCancelsPendingReconnect ==
    (stopped /\ timersAtStop # {}) => Len(sockets) = socketsAtStop

\* C3: after stop() has closed the transport of a connected session, no new
\* socket is opened and no reconnect is pending until the caller connects again.
C3_StopDoesNotResurrect ==
    (stopped /\ closedByStop # 0) =>
        /\ Len(sockets) = socketsAtStop
        /\ \A s \in SocketIds : sockets[s].state \in {"CLOSING", "CLOSED"}

\* C4: a delta update with quantity > 0 for a price that has an entry on its
\* side leaves exactly one entry at that price, carrying the new quantity.
C4_ReplaceInPlace ==
    [][\A s \in SocketIds, u \in Levels :
          LET replaced(before, after) ==
                  (u.new_quantity # "0" /\ hasPrice(before, u.price_level)) =>
                      /\ Cardinality({i \in 1..Len(after) :
                             after[i].price_level = u.price_level}) = 1
                      /\ \A i \in 1..Len(after) :
                             after[i].price_level = u.price_level
                                 => after[i].new_quantity = u.new_quantity
          IN  PublicOnMessage(s, SingleUpdate(u)) =>
                  /\ u.side = "bid" => replaced(bids, bids')
                  /\ u.side = "offer" => replaced(asks, asks')]_vars

\* C5: a delta update with quantity 0 leaves the book unchanged when its price
\* is not on its side, and otherwise removes exactly one entry, of that price,
\* every other entry of both sides staying as it was and in the same order.
C5_ZeroQuantityRemoves ==
    [][\A s \in SocketIds, u \in Levels :
          LET removed(before, after) ==
                  IF hasPrice(before, u.price_level)
                  THEN \E k \in 1..Len(before) :
                          /\ before[k].price_level = u.price_level
                          /\ isRemovalAt(before, k, after)
                  ELSE after = before
          IN  (u.new_quantity = "0" /\ lastMsg' = "update"
                  /\ PublicOnMessage(s, SingleUpdate(u))) =>
                  /\ u.side = "bid" => (removed(bids, bids') /\ asks' = asks)
                  /\ u.side = "offer" => (removed(asks, asks') /\ bids' = bids)
         ]_vars

\* The zero-quantity update of the worked example has just removed the bid at
\* 100 and left the ask.
C5_Witness ==
    /\ scenario = 2
    /\ lastMsg = "update"
    /\ bids = <<>>
    /\ asks = <<Level("offer", "101", "3")>>

\* C6: after a book message the sink got nothing when the bid side or the ask
\* side is empty, and otherwise one top of book built from the first entry of
\* each side; the worked example gives (100,5)/(101,3), then nothing, then
\* (99,2)/(101,3).
C6_TopOfBook ==
    /\ afterBookMessage =>
          delivered = IF bids = <<>> \/ asks = <<>> THEN NoCall
                      ELSE <<TopOfBookEvent(bids[1], asks[1])>>
    /\ scenario = 1 =>
          delivered = <<[event |-> "TopOfBook", askPrice |-> 101, askSize |-> 3,
                         bidPrice |-> 100, bidSize |-> 5]>>
    /\ scenario = 2 => (bids = <<>> /\ delivered = NoCall)
    /\ scenario = 3 =>
          /\ bids = <<Level("bid", "99", "2")>>
          /\ delivered = <<[event |-> "TopOfBook", askPrice |-> 101,
                            askSize |-> 3, bidPrice |-> 99, bidSize |-> 2]>>

\* The worked example has run to its end.
C6_Witness == scenario = 3 /\ delivered # NoCall

\* C7: on a private session the subscribe message is on the wire only after
\* the venue has answered the login with success.
C7_SubscribeAfterLoginSuccess ==
    connector = "private" =>
        \A s \in SocketIds :
            (\E i \in 1..Len(sockets[s].sent) :
                sockets[s].sent[i] = subscribeFrame("private"))
                => sockets[s].login = "ok"

\* C8: stop() always closes the transport: once it has returned, the socket
\* it ran on is closing or closed.
C8_StopClosesTransport ==
    (stopped /\ socketsAtStop # 0) =>
        sockets[socketsAtStop].state \in {"CLOSING", "CLOSED"}

\* C9: every socket whose open handler ran on it starts with the same
\* messages: one subscribe frame carrying the connector's channel and
\* instrument pairs in one group, after the login frame on a private session;
\* and while the caller has connected once, every open socket is such a one.
C9_ReconnectReplaysSubscriptions ==
    LET expected ==
            IF connector = "public"
            THEN << [json |-> [op |-> "subscribe", args |->
                      << [channel |-> "tickers", instId |-> "BTC-USD"],
                         [channel |-> "trades", instId |-> "BTC-USD"],
                         [channel |-> "books", instId |-> "BTC-USD"] >>]] >>
            ELSE << loginFrame,
                    [json |-> [op |-> "subscribe", args |->
                      << [channel |-> "orders", instId |-> "ANY"],
                         [channel |-> "account", instId |-> "ANY"] >>]] >>
    IN  /\ \A s \in SocketIds :
              sockets[s].handshake =>
                  /\ Len(sockets[s].sent) >= Len(expected)
                  /\ SubSeq(sockets[s].sent, 1, Len(expected)) = expected
        /\ callerConnects <= 1 =>
              \A s \in SocketIds :
                  sockets[s].state = "OPEN" => sockets[s].handshake

\* A socket made by the reconnect timer has opened and sent its messages, as
\* the caller's first socket had, on a private session.
C9_Witness ==
    /\ connector = "private"
    /\ \E s, t \in SocketIds :
          /\ sockets[s].origin = "caller" /\ sockets[s].handshake
          /\ sockets[s].state = "CLOSED"
          /\ sockets[t].origin = "timer" /\ sockets[t].handshake
          /\ Len(sockets[t].sent) >= 2

\* C10: a transport error, like a transport close, on a session that is not
\* stopped schedules the reconnect of its socket and stops the ping interval.
C10_ErrorOrCloseReconnects ==
    [][\A s \in SocketIds :
          LET errorOn == ~sockets[s].errored /\ sockets'[s].errored
              closeOn == sockets[s].state # "CLOSED"
                            /\ sockets'[s].state = "CLOSED"
          IN  ((errorOn \/ closeOn) /\ ~stopped) =>
                  /\ s \in reconnectTimers'
                  /\ pingInterval' = 0]_vars

\* C11: the ping timer of a private session lives only while the session is
\* active: at most one interval is live, and while one is live the feed is an
\* open socket that has emitted no transport error, so no ping is sent on a
\* closed transport.
C11_PingOnlyWhileActive ==
    connector = "private" =>
        /\ Cardinality(intervals) <= 1
        /\ intervals # {} =>
              /\ websocketFeed # 0
              /\ sockets[websocketFeed].state = "OPEN"
              /\ ~sockets[websocketFeed].errored

\* The orders of a request of n orders as placeOrders maps them, in order.
RECURSIVE flatten(_)
flatten(chunks) ==
    IF chunks = <<>> THEN <<>> ELSE Head(chunks) \o flatten(Tail(chunks))

ceilDiv(n, d) == (n + d - 1) \div d

\* C12: placeOrders on N orders makes ceil(N/20) chunks of 1 to 20 entries
\* each, whose concatenation is the N orders in their order; no order gives
\* no chunk and no request.
C12_PlaceOrdersChunks ==
    gateway.call = "placeOrders" =>
        /\ Len(gateway.batches) = ceilDiv(gateway.n, 20)
        /\ \A b \in 1..Len(gateway.batches) :
              Len(gateway.batches[b]) \in 1..20
        /\ Len(flatten(gateway.batches)) = gateway.n
        /\ \A i \in 1..Len(flatten(gateway.batches)) :
              flatten(gateway.batches)[i].args[1].sz = i
        /\ gateway.n = 0 => (gateway.batches = <<>> /\ gateway.requests = <<>>)

\* C13: placeOrders submits every chunk whatever becomes of the others, and
\* its result has one outcome, success or failure, per order of the request,
\* in the order of the request.
C13_PerOrderOutcomes ==
    gateway.call = "placeOrders" =>
        /\ Len(gateway.requests) = ceilDiv(gateway.n, 20)
        /\ Len(gateway.results) = gateway.n
        /\ \A i \in 1..Len(gateway.results) :
              /\ "outcome" \in DOMAIN gateway.results[i]
              /\ gateway.results[i].outcome \in {"success", "failure"}

\* C14: the sink is never called with an empty sequence, whatever the wire
\* message, on the public and on the private connector.
C14_SinkNeverEmpty == delivered # <<>>

\* The book messages of the feed with an update whose side is neither 'bid'
\* nor 'offer'.
hasUnknownSide(m) ==
    \E e \in 1..Len(m.data) : \E u \in 1..Len(m.data[e].updates) :
        m.data[e].updates[u].side \notin {"bid", "offer"}
UnknownSideFeed == {m \in BookFeed : hasUnknownSide(m)}

\* C15: a book message with an update of unknown side is dropped whole: the
\* book stays as it was and the sink is not called.
C15_UnknownSideRejected ==
    [][\A s \in SocketIds, m \in UnknownSideFeed :
          PublicOnMessage(s, m) =>
              /\ bids' = bids
              /\ asks' = asks
              /\ delivered' = NoCall]_vars

\* The messages of both feeds that do not parse or have an entry of
\* unrecognized shape.
MalformedFeed ==
    {m \in PublicMessages \cup PrivateMessages :
        IF m.parses THEN remembered(m) = "malformed" ELSE TRUE}

\* C16: a malformed message is dropped: the handler does not throw, the
\* sockets, the reconnect timers and the book stay as they were, and the sink
\* is not called, on the public and on the private connector.
C16_MalformedDropped ==
    [][\A s \in SocketIds, m \in MalformedFeed :
          (PublicOnMessage(s, m) \/ PrivateOnMessage(s, m)) =>
              /\ UNCHANGED << sockets, websocketFeed, reconnectTimers,
                              pingVars, crashed, bids, asks >>
              /\ delivered' = NoCall]_vars

C18_SecondStopNoOp ==
    [][(stopped /\ (PublicStop \/ PrivateStop)) =>
          UNCHANGED << sockets, websocketFeed, reconnectTimers, pingVars,
                       crashed, bids, asks >>]_vars

\* C19: after a book message that ends with a snapshot, bids and asks are
\* exactly the bid entries and the offer entries of that snapshot, in its
\* order, whatever the book held before.
C19_SnapshotReplaces ==
    snapshotOf # NoSnapshot =>
        /\ bids = snapshotOf.bids
        /\ asks = snapshotOf.asks

\* A snapshot without bids came to a book that was not empty, and the bid
\* side is empty after it.
C19_Witness ==
    /\ snapshotOf # NoSnapshot
    /\ snapshotOf.over = "book"
    /\ snapshotOf.bids = <<>>
    /\ snapshotOf.asks = <<Level("offer", "102", "3")>>
    /\ bids = <<>>

\* C20: no entry of the book, on either side, has a quantity that is not
\* positive.
C20_NoNonPositiveQuantity ==
    /\ \A i \in 1..Len(bids) : parseFloat(bids[i].new_quantity) > 0
    /\ \A i \in 1..Len(asks) : parseFloat(asks[i].new_quantity) > 0

\* The signature of section 4.4 for the five inputs of a request.
signature(secret, timestamp, method, path, body) ==
    Base64(HmacSHA256(timestamp \o method \o path \o body, secret))

\* The five inputs of the request r as it is sent.
sentInputs(r) ==
    << r.secret, r.sentTimestamp, r.method, r.sentPath, r.sentBody >>

\* Other values of each input of the request r.
otherInputs(r) ==
    << {r.secret, "secret2"},
       {r.sentTimestamp} \cup {ToString(t) : t \in FirstNow..MaxClock}
                         \cup {secondsText(t) : t \in FirstNow..MaxClock},
       {"GET", "POST", "DELETE"},
       {r.sentPath, r.requestPath, "/api/v5/account/balance"},
       {r.sentBody, "", jsonText(<<>>)} >>

\* C21: every request an operation signs carries the signature of its own
\* secret, timestamp, method, path and body, so that equal inputs give
\* equal signatures; changing exactly one of the five inputs gives another
\* signature; and the timestamp signed is read from the clock by that
\* signing and is the timestamp the request carries.
C21_SigningDeterministicSensitive ==
    [][signed' # signed =>
         \A i \in 1..Len(signed') :
            LET r == signed'[i]
                alts == otherInputs(r)
            IN  /\ r.sign = signature(r.secret, r.sentTimestamp, r.method,
                                      r.sentPath, r.sentBody)
                /\ \A se \in alts[1], t \in alts[2], m \in alts[3],
                      p \in alts[4], b \in alts[5] :
                      Cardinality({k \in 1..5 :
                          << se, t, m, p, b >>[k] # sentInputs(r)[k]}) = 1
                      => signature(se, t, m, p, b) # r.sign
                /\ r.now = clock'
                /\ r.timestamp = r.sentTimestamp
                /\ r.timestamp \in {ToString(r.now), secondsText(r.now),
                                     ToString(r.now \div 1000)}]_vars

\* C22: a placeOrders or deleteAllOrders call has called postRequest for
\* every chunk before the promise of any chunk settles, returns only when
\* every chunk has settled, and then holds one result per chunk, the result
\* at position b being the answer to chunk b.
C22_ChunksJoinedInOrder ==
    gateway.call \in {"placeOrders", "deleteAllOrders"} =>
        /\ gateway.settled \in {"pending", "resolved"}
        /\ Len(gateway.batches) = ceilDiv(gateway.n, OkxMaxBatchSize)
        /\ Len(gateway.requests) = Len(gateway.batches)
        /\ Len(gateway.results) = Len(gateway.batches)
        /\ gateway.settled = "resolved" =>
              \A b \in 1..Len(gateway.results) :
                 /\ gateway.results[b] # Awaited
                 /\ gateway.results[b] =
                       postRequest(endpointOf(gateway.call),
                                   gateway.requests[b]).value

\* The sockets that have not emitted 'close'.
liveSockets == {s \in SocketIds : sockets[s].state # "CLOSED"}

\* C23: after exactly one connect() by the caller, the sockets that are not
\* closed and the pending reconnect timers are together at most one, and
\* every closed socket has either its reconnect timer pending or the one
\* socket that timer opened.
C23_AtMostOneConnection ==
    callerConnects = 1 =>
        /\ Cardinality(liveSockets) + Cardinality(reconnectTimers) <= 1
        /\ reconnectTimers \subseteq SocketIds \ liveSockets
        /\ Cardinality(SocketIds \ liveSockets) =
              Cardinality(reconnectTimers)
              + Cardinality({s \in SocketIds : sockets[s].origin = "timer"})

\* A stopped connector whose socket closed, whose reconnect timer fired and
\* whose second socket is open.
C23_Witness ==
    /\ callerConnects = 1
    /\ stopped
    /\ Len(sockets) = 2
    /\ sockets[1].state = "CLOSED"
    /\ sockets[2].origin = "timer"
    /\ sockets[2].state = "OPEN"
    /\ reconnectTimers = {}

\* C24: a step that changes a socket, the feed or the reconnect timers (an
\* open, an error, a close, a reconnect, a stop) leaves bids and asks as they
\* were; and an update arriving on a socket made by the reconnect timer is
\* applied to the book held, the top of book sent to the sink being built
\* from it.
C24_BookSurvivesReconnect ==
    [][/\ (sockets' # sockets \/ websocketFeed' # websocketFeed
                              \/ reconnectTimers' # reconnectTimers)
          => UNCHANGED << bids, asks >>
       /\ \A s \in SocketIds, m \in {ScenarioRemove, ScenarioAdd} :
             (sockets[s].origin = "timer" /\ PublicOnMessage(s, m)) =>
                /\ bids' = updateBook([bids |-> bids, asks |-> asks],
                                      m.data[1]).bids
                /\ asks' = asks
                /\ delivered' = IF bids' = <<>> \/ asks = <<>> THEN NoCall
                                ELSE <<TopOfBookEvent(bids'[1], asks[1])>>]_vars

\* The book of the worked example's snapshot, held while the socket it came
\* on has closed and the socket made by the reconnect timer is connecting.
C24_Witness ==
    /\ connector = "public"
    /\ Len(sockets) = 2
    /\ sockets[1].state = "CLOSED"
    /\ sockets[2].origin = "timer"
    /\ sockets[2].state = "CONNECTING"
    /\ bids = <<Level("bid", "100", "5")>>
    /\ asks = <<Level("offer", "101", "3")>>

\* C25: on a private connector every subscribe message sent on a socket
\* comes right after a login message sent on that socket: the login goes
\* first on every connection, the caller's and the reconnects'.
C25_LoginBeforeSubscribe ==
    connector = "private" =>
        \A s \in SocketIds :
            \A j \in 1..Len(sockets[s].sent) :
                sockets[s].sent[j] = subscribeFrame("private") =>
                    /\ j > 1
                    /\ sockets[s].sent[j - 1] = loginFrame

\* The first socket and the socket of the reconnect have both sent the login
\* and then the subscribe message.
C25_Witness ==
    /\ connector = "private"
    /\ Len(sockets) = 2
    /\ Len(sockets[1].sent) >= 2
    /\ sockets[1].sent[1] = loginFrame
    /\ sockets[1].sent[2] = subscribeFrame("private")
    /\ sockets[2].origin = "timer"
    /\ sockets[2].state = "OPEN"
    /\ sockets[2].sent = <<loginFrame, subscribeFrame("private")>>

\* C26: the promise of every connect() call stays pending, whatever opens,
\* arrives, fails, closes, reconnects or stops, on either connector.
C26_ConnectNeverSettles ==
    \A s \in SocketIds : sockets[s].promise = "pending"

\* A connector that has taken a message, been stopped, lost its socket and
\* reconnected, and whose second socket has opened and reported an error.
C26_Witness ==
    /\ Len(sockets) = 2
    /\ lastMsg # "none"
    /\ stopped
    /\ sockets[1].state = "CLOSED"
    /\ sockets[2].state = "OPEN"
    /\ sockets[2].errored
    /\ sockets[1].promise = "pending"
    /\ sockets[2].promise = "pending"

====
